---- MODULE Spec2Model ----
(***************************************************************************)
(* glusterfs-fuse: the inode store (src/inode.rs) and the FUSE request     *)
(* handlers of GlusterFilesystem (src/main.rs), run against a model of the *)
(* Gluster volume the handlers reach through self.handle().                *)
(*                                                                         *)
(* A PathBuf is the sequence of its normal components below the root:      *)
(* "/" is << >>, "/a/b" is <<"a","b">>.  path_to_sequence is Path::iter,   *)
(* which yields the root component "/" first.  An Option is a sequence of  *)
(* length at most one: None is << >>, Some(x) is <<x>>.                    *)
(***************************************************************************)
EXTENDS Naturals, Sequences, FiniteSets, TLC

VARIABLES
    inodes,     \* GlusterFilesystem.inodes: [inode_map, ino_trie]
    gluster,    \* the volume behind GlusterFilesystem.handle: [tree, meta, next_ino]
    fds,        \* the glfs_fd handles the volume has handed out
    panicked,   \* "none", or why the process has unwound out of a handler
    nreq,       \* how many requests the session loop has read so far
    last        \* the request being answered (Idle between requests):
                \* its arguments, the calls made on the volume, the reply

vars == <<inodes, gluster, fds, panicked, nreq, last>>

\* ------------------------------------------------------------------ bounds

MaxIno == 3       \* inode numbers the volume can assign: 1..MaxIno
MaxDepth == 2     \* deepest path below the root
MaxFds == 1       \* glfs_fd handles the volume hands out
MaxBuf == 2       \* directory entries a readdir reply buffer can hold
MaxSize == 1      \* largest file size
MaxXattr == 2     \* longest extended attribute value
MaxRequests == 3  \* requests the kernel sends

Names == {"a", "b"}
Inos == 1..MaxIno
Fhs == 1..MaxFds

\* ------------------------------------------------------- program constants

TTL == 1
ROOT_INO == 1
ROOT_PERM == 360        \* 0o550
STAT_PERM == 493        \* 0o755

None == << >>
Some(x) == <<x>>

\* ------------------------------------------------------------ inode.rs

Root == << >>

join(path, name) == Append(path, name)

path_to_sequence(path) == <<"/">> \o path

Inode_new(path, attr) == [path |-> path, attr |-> attr]

\* HashMap<u64, Inode>
HashMapGet(map, k) == IF k \in DOMAIN map THEN Some(map[k]) ELSE None

HashMapInsert(map, k, v) ==
    [i \in DOMAIN map \cup {k} |-> IF i = k THEN v ELSE map[i]]

HashMapRemove(map, k) == [i \in DOMAIN map \ {k} |-> map[i]]

\* SequenceTrie<OsString, u64>: the values stored at key sequences
TrieGet(trie, sequence) ==
    IF sequence \in DOMAIN trie THEN Some(trie[sequence]) ELSE None

TrieSet(trie, sequence, v) ==
    [s \in DOMAIN trie \cup {sequence} |-> IF s = sequence THEN v ELSE trie[s]]

TrieRemove(trie, sequence) == [s \in DOMAIN trie \ {sequence} |-> trie[s]]

EmptyStore == [inode_map |-> << >>, ino_trie |-> << >>]

\* a mutation of the store and whether it unwound
Done(store) == [store |-> store, panic |-> "none"]
Unwound(store, why) == [store |-> store, panic |-> why]

\* insert without the check of the path the inode number had before
insert_accepting(store, inode) ==
    LET ino == inode.attr.ino
        sequence == path_to_sequence(inode.path)
    IN Done([inode_map |-> HashMapInsert(store.inode_map, ino, inode),
             ino_trie |-> TrieSet(store.ino_trie, sequence, ino)])

\* insert that keeps the record an inode number already has at that path
insert_keeping(store, inode) ==
    LET ino == inode.attr.ino
        old_inode == HashMapGet(store.inode_map, ino)
    IN IF old_inode # None /\ old_inode[1].path # inode.path
       THEN Unwound([store EXCEPT !.inode_map = HashMapInsert(@, ino, inode)],
                    "CorruptedState")
       ELSE IF old_inode # None
       THEN Done(store)
       ELSE Done([inode_map |-> HashMapInsert(store.inode_map, ino, inode),
                  ino_trie |-> TrieSet(store.ino_trie, path_to_sequence(inode.path), ino)])

insert(store, inode) ==
    LET ino == inode.attr.ino
        path == inode.path
        sequence == path_to_sequence(inode.path)
        old_inode == HashMapGet(store.inode_map, ino)
        map1 == HashMapInsert(store.inode_map, ino, inode)
    IN IF old_inode # None /\ old_inode[1].path # path
       THEN Unwound([store EXCEPT !.inode_map = map1], "CorruptedState")
       ELSE Done([inode_map |-> map1,
                  ino_trie |-> TrieSet(store.ino_trie, sequence, ino)])

get(store, ino) == HashMapGet(store.inode_map, ino)

get_by_path(store, path) ==
    LET found == TrieGet(store.ino_trie, path_to_sequence(path))
    IN IF found = None THEN None ELSE get(store, found[1])

child(store, ino, name) ==
    LET parent == get(store, ino)
    IN IF parent = None THEN None
       ELSE LET sequence == Append(path_to_sequence(parent[1].path), name)
                found == TrieGet(store.ino_trie, sequence)
            IN IF found = None THEN None ELSE get(store, found[1])

\* remove that leaves the trie entry behind
remove_map_only(store, ino) ==
    IF ino \notin DOMAIN store.inode_map
    THEN Unwound(store, "unwrap")
    ELSE Done([store EXCEPT !.inode_map = HashMapRemove(store.inode_map, ino)])

remove(store, ino) ==
    IF ino \notin DOMAIN store.inode_map
    THEN Unwound(store, "unwrap")
    ELSE LET sequence == path_to_sequence(store.inode_map[ino].path)
         IN Done([inode_map |-> HashMapRemove(store.inode_map, ino),
                  ino_trie |-> TrieRemove(store.ino_trie, sequence)])

FileAttr(ino, kind, size, perm) ==
    [ino |-> ino, kind |-> kind, size |-> size, perm |-> perm]

fs_root == FileAttr(ROOT_INO, "Directory", 0, ROOT_PERM)

\* new that returns the store without inserting the root
InodeStore_new_empty == EmptyStore

InodeStore_new == insert(EmptyStore, Inode_new(Root, fs_root)).store

insert_metadata(store, path, metadata) == insert(store, Inode_new(path, metadata))

\* ------------------------------------------------- the Gluster volume
\* tree: the paths that exist and the inode number each names; meta: the
\* st_mode type bits and st_size of each inode; next_ino: the next inode
\* number the volume assigns.  A call with up = FALSE fails whatever its
\* arguments (the volume is a remote service); a call that would need an
\* inode number or a handle beyond the bounds fails as well.

Parent(path) == SubSeq(path, 1, Len(path) - 1)

IsPrefix(p, q) == Len(p) <= Len(q) /\ SubSeq(q, 1, Len(p)) = p

Exists(g, path) == path \in DOMAIN g.tree

ModeOf(g, path) == g.meta[g.tree[path]].mode

IsDir(g, path) == Exists(g, path) /\ ModeOf(g, path) = "S_IFDIR"

Children(g, path) == {q \in DOMAIN g.tree : Len(q) = Len(path) + 1 /\ Parent(q) = path}

CanCreate(g, path) ==
    /\ Len(path) >= 1
    /\ Len(path) <= MaxDepth
    /\ ~Exists(g, path)
    /\ IsDir(g, Parent(path))

\* the inodes that are still linked somewhere keep their metadata
Collect(tree, meta) == [i \in {tree[p] : p \in DOMAIN tree} |-> meta[i]]

NewNode(g, path, mode) ==
    [tree |-> [p \in DOMAIN g.tree \cup {path} |->
                  IF p = path THEN g.next_ino ELSE g.tree[p]],
     meta |-> [i \in DOMAIN g.meta \cup {g.next_ino} |->
                  IF i = g.next_ino THEN [mode |-> mode, size |-> 0] ELSE g.meta[i]],
     next_ino |-> g.next_ino + 1]

Failed(g) == [ok |-> FALSE, g |-> g]
Ok(g) == [ok |-> TRUE, g |-> g]

glfs_new(g, path, mode, up) ==
    IF up /\ CanCreate(g, path) /\ g.next_ino <= MaxIno
    THEN Ok(NewNode(g, path, mode))
    ELSE Failed(g)

glfs_mknod(g, path, mode, up) == glfs_new(g, path, mode, up)

glfs_mkdir(g, path, up) == glfs_new(g, path, "S_IFDIR", up)

glfs_symlink(g, path, up) == glfs_new(g, path, "S_IFLNK", up)

\* creat: O_CREAT without O_EXCL opens a regular file that is already there
glfs_creat(g, path, up) ==
    IF up /\ Exists(g, path) /\ ModeOf(g, path) = "S_IFREG"
    THEN Ok(g)
    ELSE glfs_new(g, path, "S_IFREG", up)

glfs_link(g, old_path, new_path, up) ==
    IF up /\ Exists(g, old_path) /\ ~IsDir(g, old_path) /\ CanCreate(g, new_path)
    THEN Ok([g EXCEPT !.tree = [p \in DOMAIN g.tree \cup {new_path} |->
                                   IF p = new_path THEN g.tree[old_path] ELSE g.tree[p]]])
    ELSE Failed(g)

Unlinked(g, path) ==
    LET tree1 == [p \in DOMAIN g.tree \ {path} |-> g.tree[p]]
    IN [g EXCEPT !.tree = tree1, !.meta = Collect(tree1, g.meta)]

glfs_unlink(g, path, up) ==
    IF up /\ Exists(g, path) /\ ~IsDir(g, path)
    THEN Ok(Unlinked(g, path))
    ELSE Failed(g)

glfs_rmdir(g, path, up) ==
    IF up /\ path # Root /\ IsDir(g, path) /\ Children(g, path) = {}
    THEN Ok(Unlinked(g, path))
    ELSE Failed(g)

\* rename moves the whole subtree below old_path; an existing target is
\* replaced when it is of the same sort (an empty directory by a directory,
\* anything else by a non-directory)
Moved(old_path, new_path, q) ==
    new_path \o SubSeq(q, Len(old_path) + 1, Len(q))

CanRename(g, old_path, new_path) ==
    /\ Exists(g, old_path)
    /\ old_path # Root
    /\ Len(new_path) >= 1
    /\ IsDir(g, Parent(new_path))
    /\ ~IsPrefix(old_path, new_path)
    /\ \A q \in DOMAIN g.tree :
          IsPrefix(old_path, q) => Len(Moved(old_path, new_path, q)) <= MaxDepth
    /\ Exists(g, new_path) =>
          IF IsDir(g, old_path)
          THEN IsDir(g, new_path) /\ Children(g, new_path) = {}
          ELSE ~IsDir(g, new_path)

Renamed(g, old_path, new_path) ==
    LET stay == {q \in DOMAIN g.tree : ~IsPrefix(old_path, q) /\ q # new_path}
        move == {q \in DOMAIN g.tree : IsPrefix(old_path, q)}
        dest == {Moved(old_path, new_path, q) : q \in move}
        tree1 == [p \in stay \cup dest |->
                     IF p \in dest
                     THEN g.tree[CHOOSE q \in move : Moved(old_path, new_path, q) = p]
                     ELSE g.tree[p]]
    IN [g EXCEPT !.tree = tree1, !.meta = Collect(tree1, g.meta)]

glfs_rename(g, old_path, new_path, up) ==
    IF up /\ old_path = new_path /\ Exists(g, old_path) THEN Ok(g)
    ELSE IF up /\ CanRename(g, old_path, new_path)
    THEN Ok(Renamed(g, old_path, new_path))
    ELSE Failed(g)

\* stat(2) of the volume: Some([st_ino, st_mode, st_size]) or None
glfs_stat(g, path, up) ==
    IF up /\ Exists(g, path)
    THEN Some([st_ino |-> g.tree[path],
               st_mode |-> ModeOf(g, path),
               st_size |-> g.meta[g.tree[path]].size])
    ELSE None

InitGluster ==
    [tree |-> [p \in {Root} |-> ROOT_INO],
     meta |-> [i \in {ROOT_INO} |-> [mode |-> "S_IFDIR", size |-> 0]],
     next_ino |-> ROOT_INO + 1]

\* ------------------------------------------------------------ main.rs

filetype_from_uchar(f_type) ==
    CASE f_type = "DT_REG" -> Some("RegularFile")
      [] f_type = "DT_DIR" -> Some("Directory")
      [] f_type = "DT_FIFO" -> Some("NamedPipe")
      [] f_type = "DT_CHR" -> Some("CharDevice")
      [] f_type = "DT_BLK" -> Some("BlockDevice")
      [] f_type = "DT_LNK" -> Some("Symlink")
      [] OTHER -> None

filetype_from_mode(mode_t) ==
    CASE mode_t = "S_IFREG" -> Some("RegularFile")
      [] mode_t = "S_IFDIR" -> Some("Directory")
      [] mode_t = "S_IFIFO" -> Some("NamedPipe")
      [] mode_t = "S_IFCHR" -> Some("CharDevice")
      [] mode_t = "S_IFBLK" -> Some("BlockDevice")
      [] mode_t = "S_IFLNK" -> Some("Symlink")
      [] OTHER -> None

\* GlusterFilesystem::stat: Ok(FileAttr) is Some(attr), Err is None
stat(g, path, up) ==
    LET st == glfs_stat(g, path, up)
    IN IF st = None THEN None
       ELSE LET device_type == filetype_from_mode(st[1].st_mode)
            IN IF device_type = None THEN None
               ELSE Some(FileAttr(st[1].st_ino, device_type[1], st[1].st_size, STAT_PERM))

\* a call the handler made on the volume, and whether it succeeded
Call(fn, path, ok) == [fn |-> fn, path |-> path, ok |-> ok]

\* what the handler of one request did: reply is the reply it sent ("none"
\* when it sent nothing), attr the attributes replied, val the number
\* replied (handle, length, byte count), inserted the (ino, path) it handed
\* to InodeStore::insert
Request(op, args, reply, attr, val, calls, inserted) ==
    [op |-> op, args |-> args, reply |-> reply, attr |-> attr,
     ttl |-> IF attr = None THEN None ELSE Some(TTL),
     val |-> val, calls |-> calls, inserted |-> inserted]

Inserted(attr, path) == Some([ino |-> attr.ino, path |-> path])

\* the handler unwinds before it replies (Option::unwrap, Result::unwrap, Index)
Abort(op, args, calls) ==
    /\ panicked' = "unwrap"
    /\ last' = Request(op, args, "none", None, None, calls, None)

\* Ok(file_attr) => insert_metadata and reply; Err(e) => reply.error
StatInsertReply(op, args, path, g, up, calls, okreply, val, errreply) ==
    LET st == stat(g, path, up)
        calls1 == Append(calls, Call("stat", path, st # None))
    IN IF st # None
       THEN LET r == insert_metadata(inodes, path, st[1])
            IN /\ inodes' = r.store
               /\ panicked' = r.panic
               /\ last' = IF r.panic = "none"
                          THEN Request(op, args, okreply,
                                       Some(r.store.inode_map[st[1].ino].attr),
                                       val, calls1, Inserted(st[1], path))
                          ELSE Request(op, args, "none", None, None, calls1,
                                       Inserted(st[1], path))
       ELSE /\ UNCHANGED <<inodes, panicked>>
            /\ last' = Request(op, args, errreply, None, None, calls1, None)

\* between two requests the session loop holds no request
Idle == [op |-> "idle"]

\* a session loop that reads the next request while a handler is running
Waiting_concurrent == panicked = "none" /\ nreq < MaxRequests

\* a handler runs when the session loop has read the next request: the
\* session loop can read one more request, and the handler of the request
\* before it has returned
Waiting == panicked = "none" /\ last = Idle /\ nreq < MaxRequests

Running == Waiting /\ nreq' = nreq + 1

\* the reply is out and the session loop reads the next request
session_run ==
    /\ panicked = "none"
    /\ last # Idle
    /\ last' = Idle
    /\ UNCHANGED <<inodes, gluster, fds, panicked, nreq>>

\* getattr that asks the volume for the attributes of the cached path
getattr_stat(ino) ==
    /\ Running
    /\ LET found == get(inodes, ino)
           st == IF found = None THEN None ELSE stat(gluster, found[1].path, TRUE)
       IN last' = IF st # None
                  THEN Request("getattr", <<ino>>, "attr", st, None,
                               <<Call("stat", found[1].path, TRUE)>>, None)
                  ELSE Request("getattr", <<ino>>, "ENOENT", None, None, << >>, None)
    /\ UNCHANGED <<inodes, gluster, fds, panicked>>

getattr(ino) ==
    /\ Running
    /\ LET found == get(inodes, ino)
       IN last' = IF found # None
                  THEN Request("getattr", <<ino>>, "attr", Some(found[1].attr),
                               None, << >>, None)
                  ELSE Request("getattr", <<ino>>, "ENOENT", None, None, << >>, None)
    /\ UNCHANGED <<inodes, gluster, fds, panicked>>

lookup(parent, name, up) ==
    /\ Running
    /\ IF get(inodes, parent) = None
       THEN Abort("lookup", <<parent, name>>, << >>) /\ UNCHANGED inodes
       ELSE LET child_path == join(inodes.inode_map[parent].path, name)
            IN StatInsertReply("lookup", <<parent, name>>, child_path, gluster, up,
                               << >>, "entry", None, "ENOENT")
    /\ UNCHANGED <<gluster, fds>>

\* the mutation's result is not looked at before stat and insert
MakeNode_unchecked(op, parent, name, made, path, up2) ==
    /\ gluster' = made.g
    /\ StatInsertReply(op, <<parent, name>>, path, made.g, up2,
                       <<Call(op, path, made.ok)>>, "entry", None, "ENOENT")
    /\ UNCHANGED fds

\* mknod, mkdir, symlink: the mutation, then stat and insert
MakeNode(op, parent, name, made, path, up2) ==
    /\ gluster' = made.g
    /\ IF made.ok
       THEN StatInsertReply(op, <<parent, name>>, path, made.g, up2,
                            <<Call(op, path, TRUE)>>, "entry", None, "ENOENT")
       ELSE /\ UNCHANGED <<inodes, panicked>>
            /\ last' = Request(op, <<parent, name>>, "ENOENT", None, None,
                               <<Call(op, path, FALSE)>>, None)
    /\ UNCHANGED fds

mknod(parent, name, mode, up1, up2) ==
    /\ Running
    /\ IF get(inodes, parent) = None
       THEN Abort("mknod", <<parent, name>>, << >>) /\ UNCHANGED <<inodes, gluster, fds>>
       ELSE LET path == join(inodes.inode_map[parent].path, name)
            IN MakeNode("mknod", parent, name, glfs_mknod(gluster, path, mode, up1),
                        path, up2)

mkdir(parent, name, up1, up2) ==
    /\ Running
    /\ IF get(inodes, parent) = None
       THEN Abort("mkdir", <<parent, name>>, << >>) /\ UNCHANGED <<inodes, gluster, fds>>
       ELSE LET path == join(inodes.inode_map[parent].path, name)
            IN MakeNode("mkdir", parent, name, glfs_mkdir(gluster, path, up1), path, up2)

symlink(parent, name, up1, up2) ==
    /\ Running
    /\ IF get(inodes, parent) = None
       THEN Abort("symlink", <<parent, name>>, << >>) /\ UNCHANGED <<inodes, gluster, fds>>
       ELSE LET target == join(inodes.inode_map[parent].path, name)
            IN MakeNode("symlink", parent, name, glfs_symlink(gluster, target, up1),
                        target, up2)

unlink(parent, name, up) ==
    /\ Running
    /\ LET found == child(inodes, parent, name)
       IN IF found = None
          THEN /\ last' = Request("unlink", <<parent, name>>, "ENOENT", None, None,
                                  << >>, None)
               /\ UNCHANGED <<inodes, gluster, panicked>>
          ELSE LET target == found[1]
                   done == glfs_unlink(gluster, target.path, up)
                   r == remove(inodes, target.attr.ino)
               IN /\ gluster' = done.g
                  /\ IF done.ok
                     THEN /\ inodes' = r.store
                          /\ panicked' = r.panic
                          /\ last' = Request("unlink", <<parent, name>>,
                                             IF r.panic = "none" THEN "ok" ELSE "none",
                                             None, None,
                                             <<Call("unlink", target.path, TRUE)>>, None)
                     ELSE /\ UNCHANGED <<inodes, panicked>>
                          /\ last' = Request("unlink", <<parent, name>>, "ENOENT", None,
                                             None, <<Call("unlink", target.path, FALSE)>>,
                                             None)
    /\ UNCHANGED fds

rmdir(parent, name, up) ==
    /\ Running
    /\ IF get(inodes, parent) = None
       THEN Abort("rmdir", <<parent, name>>, << >>) /\ UNCHANGED gluster
       ELSE LET target == join(inodes.inode_map[parent].path, name)
                done == glfs_rmdir(gluster, target, up)
            IN /\ gluster' = done.g
               /\ panicked' = panicked
               /\ last' = Request("rmdir", <<parent, name>>,
                                  IF done.ok THEN "ok" ELSE "ENOENT", None, None,
                                  <<Call("rmdir", target, done.ok)>>, None)
    /\ UNCHANGED <<inodes, fds>>

\* rename that drops the record cached at the old path once the volume
\* has moved it
rename_forgetting(parent, name, newparent, newname, up) ==
    /\ Running
    /\ IF get(inodes, parent) = None \/ get(inodes, newparent) = None
       THEN Abort("rename", <<parent, name, newparent, newname>>, << >>)
            /\ UNCHANGED <<gluster, inodes>>
       ELSE LET child_old_path == join(inodes.inode_map[parent].path, name)
                new_child_path == join(inodes.inode_map[newparent].path, newname)
                done == glfs_rename(gluster, child_old_path, new_child_path, up)
                moved == child(inodes, parent, name)
            IN /\ gluster' = done.g
               /\ panicked' = panicked
               /\ inodes' = IF done.ok /\ moved # None
                            THEN remove(inodes, moved[1].attr.ino).store
                            ELSE inodes
               /\ last' = Request("rename", <<parent, name, newparent, newname>>,
                                  IF done.ok THEN "ok" ELSE "ENOENT", None, None,
                                  <<Call("rename", child_old_path, done.ok)>>, None)
    /\ UNCHANGED fds

rename(parent, name, newparent, newname, up) ==
    /\ Running
    /\ IF get(inodes, parent) = None \/ get(inodes, newparent) = None
       THEN Abort("rename", <<parent, name, newparent, newname>>, << >>)
            /\ UNCHANGED gluster
       ELSE LET child_old_path == join(inodes.inode_map[parent].path, name)
                new_child_path == join(inodes.inode_map[newparent].path, newname)
                done == glfs_rename(gluster, child_old_path, new_child_path, up)
            IN /\ gluster' = done.g
               /\ panicked' = panicked
               /\ last' = Request("rename", <<parent, name, newparent, newname>>,
                                  IF done.ok THEN "ok" ELSE "ENOENT", None, None,
                                  <<Call("rename", child_old_path, done.ok)>>, None)
    /\ UNCHANGED <<inodes, fds>>

link(ino, newparent, newname, up1, up2) ==
    /\ Running
    /\ IF get(inodes, ino) = None
       THEN /\ last' = Request("link", <<ino, newparent, newname>>, "ENOENT", None,
                               None, << >>, None)
            /\ UNCHANGED <<inodes, gluster, panicked>>
       ELSE IF get(inodes, newparent) = None
       THEN Abort("link", <<ino, newparent, newname>>, << >>)
            /\ UNCHANGED <<inodes, gluster>>
       ELSE LET old_path == inodes.inode_map[ino].path
                new_path == join(inodes.inode_map[newparent].path, newname)
                done == glfs_link(gluster, old_path, new_path, up1)
            IN /\ gluster' = done.g
               /\ IF done.ok
                  THEN StatInsertReply("link", <<ino, newparent, newname>>, new_path,
                                       done.g, up2, <<Call("link", new_path, TRUE)>>,
                                       "entry", None, "ENOENT")
                  ELSE /\ UNCHANGED <<inodes, panicked>>
                       /\ last' = Request("link", <<ino, newparent, newname>>, "ENOENT",
                                          None, None, <<Call("link", new_path, FALSE)>>,
                                          None)
    /\ UNCHANGED fds

\* ---- glfs_fd handles: kind "dir" or "file", the inode opened, the
\* position of the next directory entry glfs_readdir returns, whether the
\* volume still holds the handle open, whether the kernel has released it,
\* and the offset of the last entry a readdir reply on it carried (the
\* offset the kernel resumes with)
NameOrder == <<"a", "b">>

d_type(mode) ==
    CASE mode = "S_IFREG" -> "DT_REG"
      [] mode = "S_IFDIR" -> "DT_DIR"
      [] mode = "S_IFLNK" -> "DT_LNK"
      [] mode = "S_IFSOCK" -> "DT_SOCK"
      [] OTHER -> "DT_UNKNOWN"

DirEntry(g, path, name) ==
    [path |-> name, inode |-> g.tree[join(path, name)],
     file_type |-> d_type(ModeOf(g, join(path, name)))]

RECURSIVE ChildEntries(_, _, _)
ChildEntries(g, path, i) ==
    IF i > Len(NameOrder) THEN << >>
    ELSE (IF Exists(g, join(path, NameOrder[i]))
          THEN <<DirEntry(g, path, NameOrder[i])>> ELSE << >>)
         \o ChildEntries(g, path, i + 1)

DirEntries(g, path) ==
    <<[path |-> ".", inode |-> g.tree[path], file_type |-> "DT_DIR"],
      [path |-> "..", inode |-> IF path = Root THEN ROOT_INO ELSE g.tree[Parent(path)],
       file_type |-> "DT_DIR"]>>
    \o ChildEntries(g, path, 1)

NextFd == Cardinality(DOMAIN fds) + 1

NewFd(kind, ino) ==
    [h \in DOMAIN fds \cup {NextFd} |->
        IF h = NextFd
        THEN [kind |-> kind, ino |-> ino, pos |-> 1, offset |-> None,
              open |-> TRUE, released |-> FALSE]
        ELSE fds[h]]

\* the entries of the directory a handle is open on (none once it is removed)
Listing(g, ino) ==
    IF \E p \in DOMAIN g.tree : g.tree[p] = ino /\ IsDir(g, p)
    THEN DirEntries(g, CHOOSE p \in DOMAIN g.tree : g.tree[p] = ino)
    ELSE << >>

opendir(ino, _flags, up) ==
    /\ Running
    /\ LET found == get(inodes, ino)
       IN IF found = None
          THEN /\ last' = Request("opendir", <<ino>>, "ENOENT", None, None, << >>, None)
               /\ UNCHANGED <<fds, panicked>>
          ELSE LET path == found[1].path
               IN IF up /\ IsDir(gluster, path) /\ NextFd <= MaxFds
                  THEN /\ fds' = NewFd("dir", gluster.tree[path])
                       /\ panicked' = panicked
                       /\ last' = Request("opendir", <<ino>>, "opened", None, Some(NextFd),
                                          <<Call("opendir", path, TRUE)>>, None)
                  ELSE /\ Abort("opendir", <<ino>>, <<Call("opendir", path, FALSE)>>)
                       /\ UNCHANGED fds
    /\ UNCHANGED <<inodes, gluster>>

open(ino, flags, up) ==
    /\ Running
    /\ LET found == get(inodes, ino)
       IN IF found = None
          THEN /\ last' = Request("open", <<ino>>, "ENOENT", None, None, << >>, None)
               /\ UNCHANGED <<fds, panicked>>
          ELSE LET path == found[1].path
               IN IF up /\ Exists(gluster, path) /\ NextFd <= MaxFds
                  THEN /\ fds' = NewFd("file", gluster.tree[path])
                       /\ panicked' = panicked
                       /\ last' = Request("open", <<ino>>, "opened", None, Some(NextFd),
                                          <<Call("open", path, TRUE)>>, None)
                  ELSE /\ Abort("open", <<ino>>, <<Call("open", path, FALSE)>>)
                       /\ UNCHANGED fds
    /\ UNCHANGED <<inodes, gluster>>

create(parent, name, up1, up2) ==
    /\ Running
    /\ IF get(inodes, parent) = None
       THEN Abort("create", <<parent, name>>, << >>) /\ UNCHANGED <<inodes, gluster, fds>>
       ELSE LET child_path == join(inodes.inode_map[parent].path, name)
                made == IF NextFd <= MaxFds
                        THEN glfs_creat(gluster, child_path, up1)
                        ELSE Failed(gluster)
            IN /\ gluster' = made.g
               /\ IF made.ok
                  THEN /\ fds' = NewFd("file", made.g.tree[child_path])
                       /\ StatInsertReply("create", <<parent, name>>, child_path, made.g,
                                          up2, <<Call("create", child_path, TRUE)>>,
                                          "created", Some(NextFd), "ENOENT")
                  ELSE /\ UNCHANGED <<inodes, fds, panicked>>
                       /\ last' = Request("create", <<parent, name>>, "ENOENT", None,
                                          None, <<Call("create", child_path, FALSE)>>,
                                          None)

\* the loop of readdir: GlusterDirectory::next reads the entry at the
\* handle's position and moves past it; reply.add returns true, adding
\* nothing, when the buffer already holds cap entries
RECURSIVE readdir_loop(_, _, _, _, _)
readdir_loop(entries, pos, added, offset, cap) ==
    IF pos > Len(entries)
    THEN [pos |-> pos, added |-> added, reply |-> "ok"]
    ELSE LET dir_entry == entries[pos]
             device_type == filetype_from_uchar(dir_entry.file_type)
         IN IF device_type = None
            THEN [pos |-> pos + 1, added |-> << >>, reply |-> "ENOSYS"]
            ELSE IF Len(added) >= cap
            THEN [pos |-> pos + 1, added |-> added, reply |-> "ok"]
            ELSE readdir_loop(entries, pos + 1,
                              Append(added, [ino |-> dir_entry.inode, offset |-> offset,
                                             kind |-> device_type[1],
                                             name |-> dir_entry.path]),
                              offset + 1, cap)

readdir(_ino, _fh, cap) ==
    /\ Running
    /\ _fh \in DOMAIN fds
    /\ fds[_fh].kind = "dir" /\ ~fds[_fh].released /\ fds[_fh].ino = _ino
    /\ LET r == readdir_loop(Listing(gluster, _ino), fds[_fh].pos, << >>, 0, cap)
       IN /\ fds' = [fds EXCEPT ![_fh].pos = r.pos,
                                ![_fh].offset = IF r.added = << >> THEN @
                                                ELSE Some(r.added[Len(r.added)].offset)]
          /\ last' = [Request("readdir", <<_ino, _fh, cap>>, r.reply, None, None,
                              << >>, None) EXCEPT !.val = r.added]
    /\ UNCHANGED <<inodes, gluster, panicked>>

\* a handler that replies ok where nothing is implemented
Unsupported_ok(op) ==
    /\ Running
    /\ last' = Request(op, << >>, "ok", None, None, << >>, None)
    /\ UNCHANGED <<inodes, gluster, panicked>>

\* the handlers that reply ENOSYS and do nothing else
Unsupported(op) ==
    /\ Running
    /\ last' = Request(op, << >>, "ENOSYS", None, None, << >>, None)
    /\ UNCHANGED <<inodes, gluster, panicked>>

releasedir(_ino, _fh) ==
    /\ _fh \in DOMAIN fds
    /\ fds[_fh].kind = "dir" /\ ~fds[_fh].released /\ fds[_fh].ino = _ino
    /\ Unsupported("releasedir")
    /\ fds' = [fds EXCEPT ![_fh].released = TRUE]

statfs(_ino) == Unsupported("statfs") /\ UNCHANGED fds

readlink(_ino) == Unsupported("readlink") /\ UNCHANGED fds

fsync(_ino) == Unsupported("fsync") /\ UNCHANGED fds

fsyncdir(_ino) == Unsupported("fsyncdir") /\ UNCHANGED fds

listxattr(_ino) == Unsupported("listxattr") /\ UNCHANGED fds

access(_ino) == Unsupported("access") /\ UNCHANGED fds

getlk(_ino) == Unsupported("getlk") /\ UNCHANGED fds

setlk(_ino) == Unsupported("setlk") /\ UNCHANGED fds

forget(_ino) ==
    /\ Running
    /\ last' = Request("forget", << >>, "none", None, None, << >>, None)
    /\ UNCHANGED <<inodes, gluster, fds, panicked>>

flush(_ino) ==
    /\ Running
    /\ last' = Request("flush", << >>, "ok", None, None, << >>, None)
    /\ UNCHANGED <<inodes, gluster, fds, panicked>>

OpenFile(fh) ==
    fh \in DOMAIN fds /\ fds[fh].kind = "file" /\ ~fds[fh].released

read(_ino, fh, up) ==
    /\ Running
    /\ OpenFile(fh) /\ fds[fh].ino = _ino
    /\ last' = Request("read", <<_ino, fh>>, IF up THEN "data" ELSE "ENOENT", None, None,
                       <<Call("pread", fh, up)>>, None)
    /\ UNCHANGED <<inodes, gluster, fds, panicked>>

Max(a, b) == IF a >= b THEN a ELSE b

\* pwrite at offset 0 of a buffer of len bytes, of which the volume takes
\* bytes_written
glfs_pwrite(g, ino, bytes_written) ==
    IF ino \in DOMAIN g.meta
    THEN [g EXCEPT !.meta[ino].size = Max(g.meta[ino].size, bytes_written)]
    ELSE g

\* a call on the volume that returned a number
Returned(call, ret) == call @@ ("ret" :> ret)

\* the size after a write that adds the bytes asked for, not those taken
written_size_requested(size, len, bytes_written) == size + len

\* inode.attr.size += bytes_written
written_size(size, len, bytes_written) == size + bytes_written

write(ino, fh, len, bytes_written, up) ==
    /\ Running
    /\ OpenFile(fh) /\ fds[fh].ino = ino
    /\ bytes_written <= len
    /\ IF up
       THEN /\ gluster' = glfs_pwrite(gluster, ino, bytes_written)
            /\ IF get(inodes, ino) = None
               THEN /\ Abort("write", <<ino, fh, len>>,
                             <<Returned(Call("pwrite", fh, TRUE), bytes_written)>>)
                    /\ UNCHANGED inodes
               ELSE /\ inodes.inode_map[ino].attr.size + bytes_written <= MaxSize
                    /\ inodes' = [inodes EXCEPT !.inode_map[ino].attr.size =
                                                   written_size(@, len, bytes_written)]
                    /\ panicked' = panicked
                    /\ last' = Request("write", <<ino, fh, len>>, "written", None,
                                       Some(bytes_written),
                                       <<Returned(Call("pwrite", fh, TRUE), bytes_written)>>,
                                       None)
       ELSE /\ last' = Request("write", <<ino, fh, len>>, "EIO", None, None,
                               <<Call("pwrite", fh, FALSE)>>, None)
            /\ UNCHANGED <<inodes, gluster, panicked>>
    /\ UNCHANGED fds

release(_ino, fh, up) ==
    /\ Running
    /\ OpenFile(fh) /\ fds[fh].ino = _ino
    /\ fds' = [fds EXCEPT ![fh].released = TRUE, ![fh].open = ~up]
    /\ last' = Request("release", <<_ino, fh>>, IF up THEN "ok" ELSE "EIO", None, None,
                       <<Call("close", fh, up)>>, None)
    /\ UNCHANGED <<inodes, gluster, panicked>>

\* chmod, chown, utimens, setxattr, removexattr: the calls that change
\* nothing this model keeps; fn \in down when the volume fails the call
glfs_touch(g, path, fn, down) == fn \notin down /\ Exists(g, path)

SetattrCalls(want) ==
    {"utimens", "stat"}
    \cup (IF "mode" \in want THEN {"chmod"} ELSE {})
    \cup (IF "uid" \in want /\ "gid" \in want THEN {"chown"} ELSE {})

\* want: which of mode, uid, gid, atime, mtime the request carries
setattr(ino, want, down) ==
    /\ Running
    /\ LET found == get(inodes, ino)
       IN IF found = None
          THEN /\ last' = Request("setattr", <<ino, want>>, "ENOENT", None, None, << >>,
                                  None)
               /\ UNCHANGED <<inodes, panicked>>
          ELSE LET path == found[1].path
                   c1 == <<Call("utimens", path, glfs_touch(gluster, path, "utimens", down))>>
                   c2 == IF "mode" \in want
                         THEN <<Call("chmod", path, glfs_touch(gluster, path, "chmod", down))>>
                         ELSE << >>
                   c3 == IF "uid" \in want /\ "gid" \in want
                         THEN <<Call("chown", path, glfs_touch(gluster, path, "chown", down))>>
                         ELSE << >>
               IN StatInsertReply("setattr", <<ino, want>>, path, gluster,
                                  "stat" \notin down, c1 \o c2 \o c3, "attr", None, "ENOENT")
    /\ UNCHANGED <<gluster, fds>>

setxattr(ino, up) ==
    /\ Running
    /\ LET found == get(inodes, ino)
       IN last' = IF found = None
                  THEN Request("setxattr", <<ino>>, "ENOENT", None, None, << >>, None)
                  ELSE LET ok == up /\ Exists(gluster, found[1].path)
                       IN Request("setxattr", <<ino>>, IF ok THEN "ok" ELSE "ENOENT", None,
                                  None, <<Call("setxattr", found[1].path, ok)>>, None)
    /\ UNCHANGED <<inodes, gluster, fds, panicked>>

\* data_len: the length of the value the volume returns for the attribute
getxattr(ino, _size, data_len, up1, up2) ==
    /\ Running
    /\ LET found == get(inodes, ino)
       IN IF found = None
          THEN /\ last' = Request("getxattr", <<ino, _size>>, "ENOENT", None, None, << >>,
                                  None)
               /\ UNCHANGED <<inodes, panicked>>
          ELSE LET path == found[1].path
                   ok == up1 /\ Exists(gluster, path)
                   reply == IF data_len > _size THEN "ERANGE"
                            ELSE IF _size = 0 THEN "size" ELSE "data"
               IN IF ok
                  THEN StatInsertReply("getxattr", <<ino, _size>>, path, gluster, up2,
                                       <<Returned(Call("getxattr", path, TRUE), data_len)>>,
                                       reply,
                                       IF reply = "ERANGE" THEN None ELSE Some(data_len),
                                       "ENODATA")
                  ELSE /\ last' = Request("getxattr", <<ino, _size>>, "ENODATA", None, None,
                                          <<Call("getxattr", path, FALSE)>>, None)
                       /\ UNCHANGED <<inodes, panicked>>
    /\ UNCHANGED <<gluster, fds>>

removexattr(ino, up) ==
    /\ Running
    /\ LET found == get(inodes, ino)
       IN last' = IF found = None
                  THEN Request("removexattr", <<ino>>, "ENOENT", None, None, << >>, None)
                  ELSE LET ok == up /\ Exists(gluster, found[1].path)
                       IN Request("removexattr", <<ino>>, IF ok THEN "ok" ELSE "ENODATA",
                                  None, None, <<Call("removexattr", found[1].path, ok)>>,
                                  None)
    /\ UNCHANGED <<inodes, gluster, fds, panicked>>

Init ==
    /\ inodes = InodeStore_new
    /\ gluster = InitGluster
    /\ fds = << >>
    /\ panicked = "none"
    /\ nreq = 0
    /\ last = Idle

\* the session loop reads the request the kernel sends next and runs its
\* handler, with whatever the volume answers
Next ==
    \/ session_run
    \/ Waiting /\ \E ino \in Inos : getattr(ino)
    \/ Waiting /\ \E parent \in Inos, name \in Names, up \in BOOLEAN : lookup(parent, name, up)
    \/ Waiting /\ \E parent \in Inos, name \in Names, mode \in {"S_IFREG", "S_IFSOCK"},
                     up1, up2 \in BOOLEAN : mknod(parent, name, mode, up1, up2)
    \/ Waiting /\ \E parent \in Inos, name \in Names, up1, up2 \in BOOLEAN :
                     mkdir(parent, name, up1, up2)
    \/ Waiting /\ \E parent \in Inos, name \in Names, up1, up2 \in BOOLEAN :
                     symlink(parent, name, up1, up2)
    \/ Waiting /\ \E parent \in Inos, name \in Names, up \in BOOLEAN : unlink(parent, name, up)
    \/ Waiting /\ \E parent \in Inos, name \in Names, up \in BOOLEAN : rmdir(parent, name, up)
    \/ Waiting /\ \E parent, newparent \in Inos, name, newname \in Names, up \in BOOLEAN :
                     rename(parent, name, newparent, newname, up)
    \/ Waiting /\ \E ino, newparent \in Inos, newname \in Names, up1, up2 \in BOOLEAN :
                     link(ino, newparent, newname, up1, up2)
    \/ Waiting /\ \E ino \in Inos, up \in BOOLEAN : opendir(ino, 0, up)
    \/ Waiting /\ \E ino \in Inos, up \in BOOLEAN : open(ino, 0, up)
    \/ Waiting /\ \E parent \in Inos, name \in Names, up1, up2 \in BOOLEAN :
                     create(parent, name, up1, up2)
    \/ Waiting /\ \E ino \in Inos, fh \in Fhs, cap \in 1..MaxBuf : readdir(ino, fh, cap)
    \/ Waiting /\ \E ino \in Inos, fh \in Fhs : releasedir(ino, fh)
    \/ Waiting /\ \E ino \in Inos : statfs(ino)
    \/ Waiting /\ \E ino \in Inos : readlink(ino)
    \/ Waiting /\ \E ino \in Inos : fsync(ino)
    \/ Waiting /\ \E ino \in Inos : fsyncdir(ino)
    \/ Waiting /\ \E ino \in Inos : listxattr(ino)
    \/ Waiting /\ \E ino \in Inos : access(ino)
    \/ Waiting /\ \E ino \in Inos : getlk(ino)
    \/ Waiting /\ \E ino \in Inos : setlk(ino)
    \/ Waiting /\ \E ino \in Inos : forget(ino)
    \/ Waiting /\ \E ino \in Inos : flush(ino)
    \/ Waiting /\ \E ino \in Inos, fh \in Fhs, up \in BOOLEAN : read(ino, fh, up)
    \/ Waiting /\ \E ino \in Inos, fh \in Fhs, len \in 1..(MaxSize + 1),
                     bytes_written \in 0..MaxSize,
                     up \in BOOLEAN : write(ino, fh, len, bytes_written, up)
    \/ Waiting /\ \E ino \in Inos, fh \in Fhs, up \in BOOLEAN : release(ino, fh, up)
    \/ Waiting /\ \E ino \in Inos, want \in SUBSET {"mode", "uid", "gid", "atime", "mtime"} :
                     \E down \in SUBSET SetattrCalls(want) : setattr(ino, want, down)
    \/ Waiting /\ \E ino \in Inos, up \in BOOLEAN : setxattr(ino, up)
    \/ Waiting /\ \E ino \in Inos, _size, data_len \in 0..MaxXattr, up1, up2 \in BOOLEAN :
                     getxattr(ino, _size, data_len, up1, up2)
    \/ Waiting /\ \E ino \in Inos, up \in BOOLEAN : removexattr(ino, up)

Spec == Init /\ [][Next]_vars

\* the requests whose handlers change the inode store or the volume's
\* names, each with every outcome of its calls on the volume
StoreNext ==
    \/ session_run
    \/ Waiting /\ \E parent \in Inos, name \in Names, up \in BOOLEAN : lookup(parent, name, up)
    \/ Waiting /\ \E parent \in Inos, name \in Names, mode \in {"S_IFREG", "S_IFSOCK"},
                     up1, up2 \in BOOLEAN : mknod(parent, name, mode, up1, up2)
    \/ Waiting /\ \E parent \in Inos, name \in Names, up1, up2 \in BOOLEAN :
                     mkdir(parent, name, up1, up2)
    \/ Waiting /\ \E parent \in Inos, name \in Names, up1, up2 \in BOOLEAN :
                     symlink(parent, name, up1, up2)
    \/ Waiting /\ \E parent \in Inos, name \in Names, up \in BOOLEAN : unlink(parent, name, up)
    \/ Waiting /\ \E parent \in Inos, name \in Names, up \in BOOLEAN : rmdir(parent, name, up)
    \/ Waiting /\ \E parent, newparent \in Inos, name, newname \in Names, up \in BOOLEAN :
                     rename(parent, name, newparent, newname, up)
    \/ Waiting /\ \E ino, newparent \in Inos, newname \in Names, up1, up2 \in BOOLEAN :
                     link(ino, newparent, newname, up1, up2)
    \/ Waiting /\ \E parent \in Inos, name \in Names, up1, up2 \in BOOLEAN :
                     create(parent, name, up1, up2)
    \/ Waiting /\ \E ino \in Inos, down \in SUBSET {"stat"} : setattr(ino, {}, down)
    \/ Waiting /\ \E ino \in Inos, up1, up2 \in BOOLEAN : getxattr(ino, 0, 0, up1, up2)

StoreSpec == Init /\ [][StoreNext]_vars

\* ---- the store called on its own: insert and remove are public
\* methods of InodeStore, here with any inode number, any path of at most
\* one component and any size

StorePaths == {Root} \cup {<<name>> : name \in Names}

StoreInodes ==
    {Inode_new(path, FileAttr(ino, "RegularFile", size, STAT_PERM)) :
        path \in StorePaths, ino \in Inos, size \in 0..MaxSize}

store_insert(inode) ==
    /\ Running
    /\ LET r == insert(inodes, inode)
       IN /\ inodes' = r.store
          /\ panicked' = r.panic
          /\ last' = Request("insert", <<inode>>, IF r.panic = "none" THEN "ok" ELSE "none",
                             None, None, << >>, Inserted(inode.attr, inode.path))
    /\ UNCHANGED <<gluster, fds>>

store_remove(ino) ==
    /\ Running
    /\ LET r == remove(inodes, ino)
       IN /\ inodes' = r.store
          /\ panicked' = r.panic
          /\ last' = Request("remove", <<ino>>, IF r.panic = "none" THEN "ok" ELSE "none",
                             None, None, << >>, None)
    /\ UNCHANGED <<gluster, fds>>

TableNext ==
    \/ session_run
    \/ Waiting /\ \E inode \in StoreInodes : store_insert(inode)
    \/ Waiting /\ \E ino \in Inos : store_remove(ino)

TableSpec == Init /\ [][TableNext]_vars

\* ---- a mount of a volume that already holds two regular files: the
\* requests that read or refresh attributes, with rename and unlink to
\* change what the cached paths name
MountedGluster ==
    [tree |-> (Root :> ROOT_INO) @@ (<<"a">> :> 2) @@ (<<"b">> :> 3),
     meta |-> [i \in 1..3 |-> IF i = ROOT_INO THEN [mode |-> "S_IFDIR", size |-> 0]
                                             ELSE [mode |-> "S_IFREG", size |-> 0]],
     next_ino |-> 4]

MountedInit ==
    /\ inodes = InodeStore_new
    /\ gluster = MountedGluster
    /\ fds = << >>
    /\ panicked = "none"
    /\ nreq = 0
    /\ last = Idle

MountedNext ==
    \/ session_run
    \/ Waiting /\ \E ino \in Inos : getattr(ino)
    \/ Waiting /\ \E parent \in Inos, name \in Names, up \in BOOLEAN : lookup(parent, name, up)
    \/ Waiting /\ \E parent \in Inos, name \in Names, up \in BOOLEAN : unlink(parent, name, up)
    \/ Waiting /\ \E parent, newparent \in Inos, name, newname \in Names, up \in BOOLEAN :
                     rename(parent, name, newparent, newname, up)
    \/ Waiting /\ \E ino \in Inos, up \in BOOLEAN : open(ino, 0, up)
    \/ Waiting /\ \E ino \in Inos, fh \in Fhs, len \in 1..(MaxSize + 1),
                     bytes_written \in 0..MaxSize,
                     up \in BOOLEAN : write(ino, fh, len, bytes_written, up)
    \/ Waiting /\ \E ino \in Inos, want \in SUBSET {"mode", "uid", "gid", "atime", "mtime"} :
                     \E down \in SUBSET SetattrCalls(want) : setattr(ino, want, down)
    \/ Waiting /\ \E ino \in Inos, _size, data_len \in 0..MaxXattr, up1, up2 \in BOOLEAN :
                     getxattr(ino, _size, data_len, up1, up2)

MountedSpec == MountedInit /\ [][MountedNext]_vars

\* ---- the same mount, with the requests that work on handles and the
\* requests the filesystem does not implement
HandleNext ==
    \/ session_run
    \/ Waiting /\ \E parent \in Inos, name \in Names, up \in BOOLEAN : lookup(parent, name, up)
    \/ Waiting /\ \E ino \in Inos, up \in BOOLEAN : opendir(ino, 0, up)
    \/ Waiting /\ \E ino \in Inos, up \in BOOLEAN : open(ino, 0, up)
    \/ Waiting /\ \E ino \in Inos, fh \in Fhs, cap \in 1..MaxBuf : readdir(ino, fh, cap)
    \/ Waiting /\ \E ino \in Inos, fh \in Fhs : releasedir(ino, fh)
    \/ Waiting /\ \E ino \in Inos, fh \in Fhs, up \in BOOLEAN : read(ino, fh, up)
    \/ Waiting /\ \E ino \in Inos, fh \in Fhs, up \in BOOLEAN : release(ino, fh, up)
    \/ Waiting /\ \E ino \in Inos : flush(ino)
    \/ Waiting /\ \E ino \in Inos : statfs(ino)
    \/ Waiting /\ \E ino \in Inos : readlink(ino)
    \/ Waiting /\ \E ino \in Inos : fsync(ino)
    \/ Waiting /\ \E ino \in Inos : fsyncdir(ino)
    \/ Waiting /\ \E ino \in Inos : listxattr(ino)
    \/ Waiting /\ \E ino \in Inos : access(ino)
    \/ Waiting /\ \E ino \in Inos : getlk(ino)
    \/ Waiting /\ \E ino \in Inos : setlk(ino)

HandleSpec == MountedInit /\ [][HandleNext]_vars

\* ---- the same mount, with InodeStore::insert and InodeStore::remove taken
\* one statement at a time: the map is updated in one step and the trie in
\* the next, the handler that called them returning after the second

\* insert: self.inode_map.insert(ino, inode), for an inode that passes the
\* check of the old path
insert_map(store, inode) ==
    [store EXCEPT !.inode_map = HashMapInsert(@, inode.attr.ino, inode)]

\* insert: self.ino_trie.insert(&sequence, ino)
insert_trie(store, inode) ==
    [store EXCEPT !.ino_trie = TrieSet(@, path_to_sequence(inode.path), inode.attr.ino)]

\* remove: self.inode_map.remove(&ino)
remove_map(store, ino) ==
    [store EXCEPT !.inode_map = HashMapRemove(@, ino)]

\* remove: self.ino_trie.remove(&sequence)
remove_trie(store, sequence) ==
    [store EXCEPT !.ino_trie = TrieRemove(@, sequence)]

\* a handler inside insert or remove, between the two statements: step is
\* the statement to come, request what the handler will have done once the
\* store call returns
InStore(step, arg, request) == [op |-> step, arg |-> arg, request |-> request]

\* lookup, up to the map update of the insert it makes
lookup_enter(parent, name, up) ==
    /\ Running
    /\ LET child_path == join(inodes.inode_map[parent].path, name)
           st == stat(gluster, child_path, up)
       IN IF /\ get(inodes, parent) # None
             /\ st # None
             /\ insert_metadata(inodes, child_path, st[1]).panic = "none"
          THEN LET inode == Inode_new(child_path, st[1])
               IN /\ inodes' = insert_map(inodes, inode)
                  /\ last' = InStore("insert", inode,
                                     Request("lookup", <<parent, name>>, "entry",
                                             Some(inode.attr), None,
                                             <<Call("stat", child_path, TRUE)>>,
                                             Inserted(st[1], child_path)))
                  /\ UNCHANGED <<gluster, fds, panicked>>
          ELSE lookup(parent, name, up)

\* the trie update of that insert, and the reply
insert_return ==
    /\ panicked = "none"
    /\ last.op = "insert"
    /\ inodes' = insert_trie(inodes, last.arg)
    /\ last' = last.request
    /\ UNCHANGED <<gluster, fds, panicked, nreq>>

\* unlink, up to the map update of the remove it makes
unlink_enter(parent, name, up) ==
    /\ Running
    /\ LET found == child(inodes, parent, name)
           done == glfs_unlink(gluster, found[1].path, up)
       IN IF found # None /\ done.ok
          THEN /\ gluster' = done.g
               /\ inodes' = remove_map(inodes, found[1].attr.ino)
               /\ last' = InStore("remove", path_to_sequence(found[1].path),
                                  Request("unlink", <<parent, name>>, "ok", None, None,
                                          <<Call("unlink", found[1].path, TRUE)>>, None))
               /\ UNCHANGED <<fds, panicked>>
          ELSE unlink(parent, name, up)

\* the trie update of that remove, and the reply
remove_return ==
    /\ panicked = "none"
    /\ last.op = "remove"
    /\ inodes' = remove_trie(inodes, last.arg)
    /\ last' = last.request
    /\ UNCHANGED <<gluster, fds, panicked, nreq>>

SteppedNext ==
    \/ last.op \notin {"insert", "remove"} /\ session_run
    \/ insert_return
    \/ remove_return
    \/ Waiting /\ \E ino \in Inos : getattr(ino)
    \/ Waiting /\ \E parent \in Inos, name \in Names, up \in BOOLEAN :
                     lookup_enter(parent, name, up)
    \/ Waiting /\ \E parent \in Inos, name \in Names, up \in BOOLEAN :
                     unlink_enter(parent, name, up)

SteppedSpec == MountedInit /\ [][SteppedNext]_vars

\* ------------------------------------------------------------ properties

CreateLike == {"create", "mknod", "mkdir", "symlink", "link"}

Errors == {"ENOENT", "ENOSYS", "EIO", "ENODATA", "ERANGE"}

Answering(op) == last.op = op

\* C1: lock-step. While no handler has unwound, every inode number of the
\* map is what the trie holds at its record's path, and every trie entry
\* names an inode number of the map whose record has that path.
C1_LockStep ==
    panicked = "none" =>
        /\ \A ino \in DOMAIN inodes.inode_map :
              TrieGet(inodes.ino_trie, path_to_sequence(inodes.inode_map[ino].path))
                  = Some(ino)
        /\ \A sequence \in DOMAIN inodes.ino_trie :
              /\ inodes.ino_trie[sequence] \in DOMAIN inodes.inode_map
              /\ path_to_sequence(inodes.inode_map[inodes.ino_trie[sequence]].path)
                    = sequence

\* C2: uniqueness. No two inode numbers of the table have records with the
\* same path, and every record is kept under its own inode number.
C2_Unique ==
    panicked = "none" =>
        /\ \A i, j \in DOMAIN inodes.inode_map :
              i # j => inodes.inode_map[i].path # inodes.inode_map[j].path
        /\ \A i \in DOMAIN inodes.inode_map : inodes.inode_map[i].attr.ino = i

\* C3: every request is answered by a reply and no handler unwinds, unless
\* insert found a conflicting inode number (forget carries no reply).
C3_OneReplyNoAbort ==
    /\ panicked \in {"none", "CorruptedState"}
    /\ (panicked = "none" /\ last # Idle /\ last.op # "forget") => last.reply # "none"

\* C4: a lookup of a child that the table already resolves makes no stat
\* call on the volume.
C4_CacheHitNoStat ==
    [][(last'.op = "lookup" /\ child(inodes, last'.args[1], last'.args[2]) # None)
          => \A i \in DOMAIN last'.calls : last'.calls[i].fn # "stat"]_vars

\* C5: a readdir reply carries every entry the call took from the
\* directory handle, in order, so none is lost between a full reply and
\* the call that resumes; the offsets it carries increase and lie above
\* the offsets of the earlier replies on the handle.
C5_ReaddirResumes ==
    [][(last'.op = "readdir" /\ last'.reply = "ok") =>
          LET fh == last'.args[2]
              listing == Listing(gluster, last'.args[1])
              added == last'.val
          IN /\ [i \in DOMAIN added |-> added[i].name]
                   = [i \in 1..(fds'[fh].pos - fds[fh].pos) |->
                          listing[fds[fh].pos + i - 1].path]
             /\ \A i, j \in DOMAIN added : i < j => added[i].offset < added[j].offset
             /\ (fds[fh].offset # None /\ added # << >>)
                   => added[1].offset > fds[fh].offset[1]]_vars

\* C6: unlink. When the volume unlinks the target, its record leaves the
\* map and the trie (get, get_by_path and child no longer find it) and
\* the reply is ok; when the volume refuses, the store is as before and an
\* error is replied.
C6_Unlink ==
    [][(last'.op = "unlink" /\ last'.calls # << >>) =>
          LET target == child(inodes, last'.args[1], last'.args[2])[1]
          IN IF last'.calls[1].ok
             THEN /\ last'.calls[1].path = target.path
                  /\ target.attr.ino \notin DOMAIN inodes'.inode_map
                  /\ path_to_sequence(target.path) \notin DOMAIN inodes'.ino_trie
                  /\ get(inodes', target.attr.ino) = None
                  /\ get_by_path(inodes', target.path) = None
                  /\ child(inodes', last'.args[1], last'.args[2]) = None
                  /\ last'.reply = "ok"
             ELSE /\ inodes' = inodes
                  /\ last'.reply \in Errors]_vars

C6_Witness ==
    /\ Answering("unlink")
    /\ last.reply = "ok"
    /\ last.calls = <<Call("unlink", <<"a">>, TRUE)>>
    /\ get_by_path(inodes, <<"a">>) = None

\* C7: once the volume has removed a directory, the table holds no record
\* at its path.
C7_RmdirForgets ==
    (Answering("rmdir") /\ last.reply = "ok") =>
        /\ get_by_path(inodes, last.calls[1].path) = None
        /\ \A ino \in DOMAIN inodes.inode_map :
              inodes.inode_map[ino].path # last.calls[1].path

\* C8: a create-like request whose mutation and stat both succeed is
\* answered with the attributes, and the table then resolves the new path
\* to the inode number stat reported; insert does not unwind.
C8_CreateLikeSucceeds ==
    (last.op \in CreateLike /\ Len(last.calls) = 2
        /\ last.calls[1].ok /\ last.calls[2].ok) =>
        /\ panicked = "none"
        /\ last.reply \in {"entry", "created"}
        /\ last.attr # None
        /\ get_by_path(inodes, last.calls[2].path) # None
        /\ get_by_path(inodes, last.calls[2].path)[1].attr.ino = last.inserted[1].ino

\* C9: a create-like request whose mutation fails, or whose stat fails
\* after the mutation, is answered with an error and leaves the inode map
\* and the trie as they were.
C9_CreateLikeFails ==
    [][(last'.op \in CreateLike
          /\ \E i \in DOMAIN last'.calls : ~last'.calls[i].ok) =>
          /\ last'.reply \in Errors
          /\ inodes' = inodes
          /\ panicked' = "none"]_vars

C9_Witness ==
    /\ Answering("mknod")
    /\ last.calls = <<Call("mknod", <<"a">>, TRUE), Call("stat", <<"a">>, FALSE)>>
    /\ last.reply = "ENOENT"
    /\ Exists(gluster, <<"a">>)
    /\ get_by_path(inodes, <<"a">>) = None

\* C10: insert of an inode number the map holds with another path unwinds
\* with CorruptedState.
C10_ConflictDetected ==
    [][(last'.op # "idle" /\ last'.inserted # None
          /\ last'.inserted[1].ino \in DOMAIN inodes.inode_map
          /\ inodes.inode_map[last'.inserted[1].ino].path # last'.inserted[1].path)
          => panicked' = "CorruptedState"]_vars

C10_Witness ==
    /\ panicked = "CorruptedState"
    /\ last.inserted # None
    /\ last.reply = "none"

\* C11: root reservation. Before any request inode 1 is the directory "/"
\* of size 0, built without a call on the volume; in every state inode 1
\* is in the map with path "/" and the trie binds "/" to 1.
C11_RootReserved ==
    /\ nreq = 0 =>
          /\ get(inodes, ROOT_INO) = Some(Inode_new(Root, fs_root))
          /\ fs_root.kind = "Directory" /\ fs_root.size = 0
          /\ gluster \in {InitGluster, MountedGluster}
    /\ get(inodes, ROOT_INO) # None
    /\ get(inodes, ROOT_INO)[1].path = Root
    /\ TrieGet(inodes.ino_trie, path_to_sequence(Root)) = Some(ROOT_INO)
    /\ get_by_path(inodes, Root) = get(inodes, ROOT_INO)

C11_Witness ==
    /\ Answering("setattr")
    /\ last.args[1] = ROOT_INO
    /\ last.reply = "attr"
    /\ inodes.inode_map[ROOT_INO].attr.perm = STAT_PERM
    /\ inodes.inode_map[ROOT_INO].path = Root

\* C12: round trip and refresh. After an insert of a record whose inode
\* number the map does not hold at another path, get of its inode number
\* and get_by_path of its path return the record inserted, payload
\* included, and insert does not unwind; when the table already resolved
\* that inode number and that path to a record of the same path (the same
\* (ino, path) inserted again), the inode numbers and the paths it knows are
\* as before.
C12_RoundTrip ==
    [][(last'.op = "insert"
          /\ ~(\E old_inode \in {get(inodes, last'.args[1].attr.ino)} \ {None} :
                  old_inode[1].path # last'.args[1].path)) =>
          LET inode == last'.args[1]
              ino == inode.attr.ino
              again == /\ get(inodes, ino) # None
                       /\ get(inodes, ino)[1].path = inode.path
                       /\ get_by_path(inodes, inode.path) = get(inodes, ino)
          IN /\ panicked' = "none"
             /\ get(inodes', ino) = Some(inode)
             /\ get_by_path(inodes', inode.path) = Some(inode)
             /\ again => /\ DOMAIN inodes'.inode_map = DOMAIN inodes.inode_map
                         /\ DOMAIN inodes'.ino_trie = DOMAIN inodes.ino_trie]_vars

C12_Witness ==
    /\ Answering("insert")
    /\ panicked = "none"
    /\ last.args[1].path = Root
    /\ last.args[1].attr.ino = ROOT_INO
    /\ last.args[1].attr # fs_root
    /\ get(inodes, ROOT_INO) = Some(last.args[1])
    /\ DOMAIN inodes.inode_map = {ROOT_INO}

\* C13: a lookup of a child the table does not resolve, below a parent it
\* holds. When stat of the child path succeeds with inode number i, the
\* handler replies the attributes stat returned and the table then holds
\* (i, child path, those attributes); when stat fails, the reply is ENOENT
\* and the store is as before.
C13_LookupMiss ==
    [][(last'.op = "lookup"
          /\ get(inodes, last'.args[1]) # None
          /\ child(inodes, last'.args[1], last'.args[2]) = None) =>
          LET child_path == join(inodes.inode_map[last'.args[1]].path, last'.args[2])
              file_attr == stat(gluster, child_path, TRUE)
          IN IF last'.calls[1].ok
             THEN /\ panicked' = "none"
                  /\ last'.reply = "entry"
                  /\ last'.attr = file_attr
                  /\ get(inodes', file_attr[1].ino) = Some(Inode_new(child_path, file_attr[1]))
             ELSE /\ last'.reply = "ENOENT"
                  /\ inodes' = inodes]_vars

\* C14: child. For a parent the table holds with path P, every record of
\* the map whose path is P/name (inserted and not removed) is what
\* child(parent, name) returns; child of an inode number the table does not
\* hold is None.
C14_ChildResolves ==
    panicked = "none" =>
        /\ \A parent \in DOMAIN inodes.inode_map, name \in Names :
              \A ino \in DOMAIN inodes.inode_map :
                  inodes.inode_map[ino].path = join(inodes.inode_map[parent].path, name)
                      => child(inodes, parent, name) = Some(inodes.inode_map[ino])
        /\ \A parent \in Inos \ DOMAIN inodes.inode_map, name \in Names :
              child(inodes, parent, name) = None

\* C15: remove of an inode number the table does not hold returns (the
\* caller gets a result, nothing unwinds) and leaves the map and the trie
\* as they were.
C15_RemoveUnknown ==
    [][(last'.op = "remove" /\ get(inodes, last'.args[1]) = None) =>
          /\ panicked' = "none"
          /\ last'.reply # "none"
          /\ inodes' = inodes]_vars

\* C16: setattr of an inode number the table holds. Whatever sub-changes
\* fail, the later ones the request asks for are still called and stat is
\* called last; when that stat succeeds, the attributes it returned are
\* replied and the record of the request's inode number holds them.
C16_SetattrRefreshes ==
    [][(last'.op = "setattr" /\ get(inodes, last'.args[1]) # None) =>
          LET ino == last'.args[1]
              want == last'.args[2]
              path == inodes.inode_map[ino].path
              called == {last'.calls[i].fn : i \in DOMAIN last'.calls}
              file_attr == stat(gluster, path, TRUE)
          IN /\ ({"atime", "mtime"} \cap want # {}) => "utimens" \in called
             /\ "mode" \in want => "chmod" \in called
             /\ {"uid", "gid"} \subseteq want => "chown" \in called
             /\ last'.calls[Len(last'.calls)].fn = "stat"
             /\ last'.calls[Len(last'.calls)].ok =>
                   /\ panicked' = "none"
                   /\ last'.reply = "attr"
                   /\ last'.attr = file_attr
                   /\ get(inodes', ino) = Some(Inode_new(path, file_attr[1]))]_vars

\* C17: write on an inode number the table holds. When the volume takes k
\* bytes, k is replied and the cached size grows by k, whatever length was
\* asked for; when the volume fails the write, EIO is replied; either way
\* nothing else of the store changes.
C17_WriteSize ==
    [][(last'.op = "write" /\ get(inodes, last'.args[1]) # None) =>
          LET ino == last'.args[1]
          IN IF last'.calls[1].ok
             THEN /\ last'.reply = "written"
                  /\ last'.val = Some(last'.calls[1].ret)
                  /\ inodes' = [inodes EXCEPT !.inode_map[ino].attr.size =
                                                 @ + last'.calls[1].ret]
                  /\ panicked' = "none"
             ELSE /\ last'.reply = "EIO"
                  /\ inodes' = inodes]_vars

C17_Witness ==
    /\ Answering("write")
    /\ last.reply = "written"
    /\ last.args[3] = 2
    /\ last.val = Some(1)
    /\ get(inodes, last.args[1]) # None
    /\ get(inodes, last.args[1])[1].attr.size = 1

\* C18: getxattr of an inode number the table holds, when the volume
\* returns a value of length L and the follow-up stat succeeds: a request
\* of size 0 is answered with the length L; a request of a size below L,
\* not 0, with ERANGE; a request of a size of at least L > 0 with the value.
C18_XattrSize ==
    [][(last'.op = "getxattr" /\ Len(last'.calls) = 2
          /\ last'.calls[1].ok /\ last'.calls[2].ok /\ panicked' = "none") =>
          LET _size == last'.args[2]
              L == last'.calls[1].ret
          IN /\ _size = 0 => (last'.reply = "size" /\ last'.val = Some(L))
             /\ (_size # 0 /\ _size < L) => last'.reply = "ERANGE"
             /\ (_size >= L /\ L > 0) => (last'.reply = "data" /\ last'.val = Some(L))]_vars

\* C19: rename leaves the store as it was, whether the volume renames or
\* refuses: the map, the trie and every cached attribute are the same
\* before and after the request.
C19_RenameKeepsTable ==
    [][last'.op = "rename" => inodes' = inodes]_vars

C19_Witness ==
    /\ Answering("rename")
    /\ last.reply = "ok"
    /\ ~Exists(gluster, last.calls[1].path)
    /\ get_by_path(inodes, last.calls[1].path) # None
    /\ get_by_path(inodes, last.calls[1].path)[1].path = last.calls[1].path

\* C20: getattr is answered from the store alone. For an inode number the
\* table holds the reply carries the cached attributes and a validity of
\* TTL, one second; for any other the reply is ENOENT; no call is made on
\* the volume and the store is as before.
C20_GetattrFromCache ==
    [][last'.op = "getattr" =>
          LET found == get(inodes, last'.args[1])
          IN /\ last'.calls = << >>
             /\ gluster' = gluster
             /\ inodes' = inodes
             /\ panicked' = "none"
             /\ IF found # None
                THEN /\ last'.reply = "attr"
                     /\ last'.attr = Some(found[1].attr)
                     /\ last'.ttl = Some(TTL)
                     /\ TTL = 1
                ELSE last'.reply = "ENOENT"]_vars

C20_Witness ==
    /\ Answering("getattr")
    /\ last.reply = "attr"
    /\ last.ttl = Some(1)
    /\ last.attr = Some(inodes.inode_map[last.args[1]].attr)
    /\ ~Exists(gluster, inodes.inode_map[last.args[1]].path)

\* C21: statfs, readlink, releasedir, fsync, fsyncdir, listxattr, access,
\* getlk and setlk reply ENOSYS, never ok; they make no call on the volume
\* (no handle is closed or read) and leave the store as it was.
C21_Unsupported ==
    [][last'.op \in {"statfs", "readlink", "releasedir", "fsync", "fsyncdir",
                     "listxattr", "access", "getlk", "setlk"} =>
          /\ last'.reply = "ENOSYS"
          /\ last'.calls = << >>
          /\ inodes' = inodes
          /\ gluster' = gluster
          /\ panicked' = "none"
          /\ DOMAIN fds' = DOMAIN fds
          /\ \A h \in DOMAIN fds : fds'[h].open = fds[h].open /\ fds'[h].pos = fds[h].pos]_vars

C21_Witness ==
    /\ Answering("releasedir")
    /\ last.reply = "ENOSYS"
    /\ \E h \in DOMAIN fds : fds[h].kind = "dir" /\ fds[h].released /\ fds[h].open

\* C22: a lookup under a parent the table holds, whose stat succeeds with the
\* inode number of a record the table holds at another path, that path being
\* gone from the volume (the inode was renamed away from it). The handler
\* replies the entry without unwinding and the table then holds the inode at
\* the looked-up path.
C22_LookupAfterRename ==
    [][(last'.op = "lookup"
          /\ get(inodes, last'.args[1]) # None
          /\ last'.calls[1].ok
          /\ get(inodes, last'.inserted[1].ino) # None
          /\ get(inodes, last'.inserted[1].ino)[1].path # last'.inserted[1].path
          /\ ~Exists(gluster, get(inodes, last'.inserted[1].ino)[1].path)) =>
          /\ panicked' = "none"
          /\ last'.reply = "entry"
          /\ get(inodes', last'.inserted[1].ino) # None
          /\ get(inodes', last'.inserted[1].ino)[1].path = last'.inserted[1].path]_vars

\* C23: an unlink under a parent the table holds, whether or not the table
\* resolves the child: the handler makes exactly one call on the volume,
\* unlink of the parent's path joined with the name, and replies ok when that
\* call succeeds and an error when it fails.
C23_UnlinkCallsVolume ==
    [][(last'.op = "unlink" /\ get(inodes, last'.args[1]) # None) =>
          LET target == join(get(inodes, last'.args[1])[1].path, last'.args[2])
          IN /\ Len(last'.calls) = 1
             /\ last'.calls[1].fn = "unlink"
             /\ last'.calls[1].path = target
             /\ (last'.reply = "ok") = last'.calls[1].ok
             /\ last'.reply \in {"ok"} \cup Errors]_vars

\* C24: a setattr of an inode the table holds calls utimens exactly when the
\* request carries atime or mtime, chmod exactly when it carries mode, and
\* chown exactly when it carries both uid and gid.
C24_SetattrSubChanges ==
    [][(last'.op = "setattr" /\ get(inodes, last'.args[1]) # None) =>
          LET want == last'.args[2]
              called == {last'.calls[i].fn : i \in DOMAIN last'.calls}
          IN /\ ("utimens" \in called) = ("atime" \in want \/ "mtime" \in want)
             /\ ("chmod" \in called) = ("mode" \in want)
             /\ ("chown" \in called) = ("uid" \in want /\ "gid" \in want)]_vars

\* C25: lookup, mknod and read. When a call on the volume fails although
\* what it names is there (the path is on the volume, the handle is open),
\* the reply is EIO; the reply is ENOENT only when the handler made no call
\* (the table does not hold what the request names) or a failed call named a
\* path that is not on the volume.
C25_ErrorClass ==
    [][last'.op \in {"lookup", "mknod", "read"} =>
          LET failed == {i \in DOMAIN last'.calls : ~last'.calls[i].ok}
              There(i) == IF last'.calls[i].fn = "pread"
                          THEN OpenFile(last'.calls[i].path)
                          ELSE Exists(gluster', last'.calls[i].path)
          IN /\ (failed # {} /\ \A i \in failed : There(i)) => last'.reply = "EIO"
             /\ last'.reply = "ENOENT" =>
                   \/ last'.calls = << >>
                   \/ \E i \in failed : ~There(i)]_vars

\* C26: a handle that opendir, open or create handed out. The request by
\* which the kernel releases it (releasedir, release) makes exactly one call
\* on the volume, close of that handle; once released, the handle is not
\* used again.
C26_ReleasedOnce ==
    [][\A h \in DOMAIN fds :
          /\ (~fds[h].released /\ fds'[h].released) =>
                /\ Len(last'.calls) = 1
                /\ last'.calls[1].fn = "close"
                /\ last'.calls[1].path = h
          /\ fds[h].released => fds'[h] = fds[h]]_vars

\* C27: with insert and remove taken one statement at a time, a handler
\* starts only on a table that is not between the two statements of another
\* request's insert or remove: the map and the trie then agree (every record
\* is in the trie at its path, every trie entry names a record with that
\* path).
C27_Atomic ==
    [][nreq' = nreq + 1 =>
          /\ \A ino \in DOMAIN inodes.inode_map :
                TrieGet(inodes.ino_trie, path_to_sequence(inodes.inode_map[ino].path))
                    = Some(ino)
          /\ \A sequence \in DOMAIN inodes.ino_trie :
                /\ inodes.ino_trie[sequence] \in DOMAIN inodes.inode_map
                /\ path_to_sequence(inodes.inode_map[inodes.ino_trie[sequence]].path)
                      = sequence]_vars

\* a lookup is between the map update and the trie update of its insert
C27_Witness ==
    /\ last.op = "insert"
    /\ last.arg.attr.ino \in DOMAIN inodes.inode_map
    /\ TrieGet(inodes.ino_trie, path_to_sequence(last.arg.path)) = None
    /\ panicked = "none"

====
